---- MODULE Spec2Model ----
(***************************************************************************)
(* Model of universal_searcher.py: the pattern matcher (search_in_text,    *)
(* _get_context), the content decoder (read_file and the archive readers), *)
(* the file search orchestrator (search_in_file) and the directory walker  *)
(* (search_in_directory), with the validation done by the GUI entry point  *)
(* start_search.                                                           *)
(*                                                                         *)
(* Strings are sequences of characters.  A character is a TLA+ string; the *)
(* multi-letter tokens "txt", "zip", ... stand for a file-name part that   *)
(* contains no '.' and no '/'.  "Idot" is U+0130 (capital I with dot       *)
(* above), whose str.lower() is the two characters "i", "dot" (U+0307).    *)
(***************************************************************************)
EXTENDS Integers, Sequences, FiniteSets, TLC

VARIABLES
    api,              \* the entry point this behaviour calls
    pc,               \* the position of the call
    ret,              \* what the call returned
    \* arguments of search_in_text, search_in_file and search_in_directory
    arg_text, arg_pattern, arg_case_sensitive, arg_regex,
    arg_path, arg_file_pattern, arg_recursive,
    \* arguments of _get_context
    arg_line, arg_start, arg_end,
    RAR_SUPPORT,      \* the rarfile module could be imported
    disk,             \* the entries below the root directory, in the order
                      \* in which the file system enumerates them
    search_type,      \* the GUI's radio button (file, dir, pattern)
    files, processed, idx, all_results,     \* locals of search_in_directory
    messagebox,       \* the dialog start_search has shown
    current_results, after_queue, tree_rows, \* state of FileSearchGUI
    \* a session of the GUI in which several searches are started
    threads,          \* the worker threads start_search has started
    cleared,          \* how often clear_results has run
    details           \* what on_tree_select has put into the details pane

----------------------------------------------------------------------------
(* Bounds of the model *)

MaxTextLen == 3
MaxPatLen == 2
MaxLineLen == 104
MaxMatchLen == 2

(* Program constants *)

context_chars == 50

----------------------------------------------------------------------------
(* Python built-ins used by the code *)

NL == "\n"

Min(a, b) == IF a < b THEN a ELSE b
Max(a, b) == IF a > b THEN a ELSE b

\* s[a:b] for 0 <= a, 0 <= b: the slice is clipped to the string
Slice(s, a, b) == SubSeq(s, a + 1, Min(b, Len(s)))

\* str.lower() of one character
LowerChar(c) ==
    CASE c = "A" -> <<"a">>
      [] c = "Idot" -> <<"i", "dot">>
      [] c = "TXT" -> <<"txt">>
      [] c = "GZ" -> <<"gz">>
      [] OTHER -> <<c>>

RECURSIVE Lower(_)
Lower(s) == IF s = <<>> THEN <<>> ELSE LowerChar(Head(s)) \o Lower(Tail(s))

\* s.find(sub, start): lowest index i >= start with s[i:i+len(sub)] = sub, else -1
Occurs(s, sub, i) == i + Len(sub) <= Len(s) /\ SubSeq(s, i + 1, i + Len(sub)) = sub

Find(s, sub, start) ==
    LET hits == {i \in start..Len(s) : Occurs(s, sub, i)}
    IN  IF hits = {} THEN -1 ELSE CHOOSE i \in hits : \A j \in hits : i <= j

\* s.split(sep) for a one-character separator
RECURSIVE Split(_, _)
Split(s, sep) ==
    LET cut == Find(s, <<sep>>, 0)
    IN  IF cut = -1 THEN <<s>>
        ELSE <<SubSeq(s, 1, cut)>> \o Split(SubSeq(s, cut + 2, Len(s)), sep)

----------------------------------------------------------------------------
(* The subset of the re dialect that the model's patterns are written in:  *)
(* literal characters, "." (any character) and the group parentheses.      *)

\* re.compile(pattern) succeeds: the parentheses are balanced
RECURSIVE Depth(_, _)
Depth(p, d) ==
    IF d < 0 THEN -1
    ELSE IF p = <<>> THEN d
    ELSE IF Head(p) = "(" THEN Depth(Tail(p), d + 1)
    ELSE IF Head(p) = ")" THEN Depth(Tail(p), d - 1)
    ELSE Depth(Tail(p), d)

Compiles(pattern) == Depth(pattern, 0) = 0

\* the atoms a compiled pattern matches one after the other
Atoms(pattern) == SelectSeq(pattern, LAMBDA c : c \notin {"(", ")"})

\* re.IGNORECASE compares the simple lower-case mapping of single characters
RegexFold(c) ==
    CASE c = "A" -> "a"
      [] c = "Idot" -> "i"
      [] OTHER -> c

AtomMatches(atom, c, flags) ==
    \/ atom = "."
    \/ IF flags = "IGNORECASE" THEN RegexFold(atom) = RegexFold(c) ELSE atom = c

RegexMatchAt(atoms, line, i, flags) ==
    /\ i + Len(atoms) <= Len(line)
    /\ \A k \in 1..Len(atoms) : AtomMatches(atoms[k], line[i + k], flags)

\* regex_pattern.finditer(line): the spans of the successive leftmost matches
RECURSIVE finditer(_, _, _, _)
finditer(atoms, line, flags, from) ==
    LET hits == {i \in from..Len(line) : RegexMatchAt(atoms, line, i, flags)}
        s == CHOOSE i \in hits : \A j \in hits : i <= j
        e == s + Len(atoms)
    IN  IF hits = {} THEN <<>>
        ELSE <<[start |-> s, end |-> e]>>
             \o finditer(atoms, line, flags, IF e = s THEN s + 1 ELSE e)

----------------------------------------------------------------------------
(* UniversalFileSearcher._get_context *)

Ellipsis == <<".", ".", ".">>

\* mutant: the window before the match is one character too long
context_startOffByOne(start) == Max(0, start - context_chars - 1)

context_start(start) == Max(0, start - context_chars)

context_end(line, end) == Min(Len(line), end + context_chars)

_get_context(line, start, end) ==
    LET cs == context_start(start)
        ce == context_end(line, end)
        context == Slice(line, cs, ce)
        context1 == IF cs > 0 THEN Ellipsis \o context ELSE context
    IN  IF ce < Len(line) THEN context1 \o Ellipsis ELSE context1

----------------------------------------------------------------------------
(* UniversalFileSearcher.search_in_text *)

MatchRecord(i, pos, match, line, end) ==
    [line |-> i, position |-> pos, match |-> match,
     context |-> _get_context(line, pos, end), full_line |-> line]

\* mutant: the cursor skips the whole hit, so overlapping hits are lost
NextStartSkipsHit(pos, pattern_len) == pos + Max(1, pattern_len)

\* the cursor after a hit at pos
NextStart(pos, pattern_len) == pos + 1

\* the while loop of the literal branch, for line number i
RECURSIVE LiteralScan(_, _, _, _, _, _)
LiteralScan(i, line, line_to_search, pattern_to_use, pattern_len, start) ==
    LET pos == Find(line_to_search, pattern_to_use, start)
    IN  IF pos = -1 THEN <<>>
        ELSE <<MatchRecord(i, pos, Slice(line, pos, pos + pattern_len), line,
                           pos + pattern_len)>>
             \o LiteralScan(i, line, line_to_search, pattern_to_use, pattern_len,
                            NextStart(pos, pattern_len))

LiteralLine(i, line, pattern, case_sensitive) ==
    LET line_to_search == IF case_sensitive THEN line ELSE Lower(line)
        pattern_to_use == IF case_sensitive THEN pattern ELSE Lower(pattern)
    IN  LiteralScan(i, line, line_to_search, pattern_to_use, Len(pattern), 0)

RegexLine(i, line, pattern, case_sensitive) ==
    LET flags == IF case_sensitive THEN "0" ELSE "IGNORECASE"
        spans == finditer(Atoms(pattern), line, flags, 0)
    IN  [k \in 1..Len(spans) |->
            MatchRecord(i, spans[k].start,
                        Slice(line, spans[k].start, spans[k].end), line,
                        spans[k].end)]

\* the for loop over enumerate(lines, 1), from line number i on
RECURSIVE ScanLines(_, _, _, _, _)
ScanLines(lines, i, pattern, case_sensitive, regex) ==
    IF i > Len(lines) THEN <<>>
    ELSE (IF regex THEN RegexLine(i, lines[i], pattern, case_sensitive)
                   ELSE LiteralLine(i, lines[i], pattern, case_sensitive))
         \o ScanLines(lines, i + 1, pattern, case_sensitive, regex)

\* mutant: the handler keeps what a lenient reading of the pattern matches
OnRegexErrorKeepsMatches(text, pattern, case_sensitive) ==
    [raised |-> FALSE,
     value |-> ScanLines(Split(text, NL), 1, Atoms(pattern), case_sensitive, FALSE),
     printed |-> TRUE]

\* the handler of re.error: the diagnostic is printed and [] is returned
OnRegexError(text, pattern, case_sensitive) ==
    [raised |-> FALSE, value |-> <<>>, printed |-> TRUE]

\* exc: an exception that is not re.error (MemoryError, RecursionError) is
\* raised while the text is split, the pattern compiled or the lines matched
search_in_text(text, pattern, case_sensitive, regex, exc) ==
    IF text = <<>> THEN [raised |-> FALSE, value |-> <<>>, printed |-> FALSE]
    ELSE IF exc THEN [raised |-> TRUE, value |-> <<>>, printed |-> FALSE]
    ELSE IF regex /\ ~Compiles(pattern)
         THEN OnRegexError(text, pattern, case_sensitive)
    ELSE [raised |-> FALSE,
          value |-> ScanLines(Split(text, NL), 1, pattern, case_sensitive, regex),
          printed |-> FALSE]


----------------------------------------------------------------------------
(* Paths.  A path is a string whose characters are name parts, "." and "/" *)

RootPath == <<"d">>
MissingPath == <<"d", "/", "gone", ".", "txt">>

FullPath(rel) == RootPath \o <<"/">> \o rel

\* s.rfind(c) + 1: the 1-based index of the last c in s, 0 when there is none
LastIndexOf(s, c) ==
    LET at == {i \in 1..Len(s) : s[i] = c}
    IN  IF at = {} THEN 0 ELSE CHOOSE i \in at : \A j \in at : j <= i

\* PurePath.name
Basename(p) == SubSeq(p, LastIndexOf(p, "/") + 1, Len(p))

\* PurePath.suffix: name[i:] where i = name.rfind('.'), if 0 < i < len(name) - 1
PathSuffix(p) ==
    LET name == Basename(p)
        i == LastIndexOf(name, ".") - 1
    IN  IF 0 < i /\ i < Len(name) - 1 THEN SubSeq(name, i + 1, Len(name)) ELSE <<>>

\* file_path.suffix[1:].lower() in search_in_directory
WalkerExt(p) == Lower(Slice(PathSuffix(p), 1, Len(PathSuffix(p))))

\* file_path.split('.')[-1].lower() if '.' in file_path else '' in read_file
ReadFileExt(file_path) ==
    IF LastIndexOf(file_path, ".") = 0 THEN <<>>
    ELSE Lower(SubSeq(file_path, LastIndexOf(file_path, ".") + 1, Len(file_path)))

\* os.path.splitext(filename)[1][1:].lower() in the archive readers: the
\* extension starts at the last dot of the last component, unless only dots
\* come before it
SplitextExt(filename) ==
    LET sepIndex == LastIndexOf(filename, "/")
        dotIndex == LastIndexOf(filename, ".")
    IN  IF dotIndex > sepIndex
           /\ \E k \in (sepIndex + 1)..(dotIndex - 1) : filename[k] # "."
        THEN Lower(SubSeq(filename, dotIndex + 1, Len(filename)))
        ELSE <<>>

\* file_path.endswith('.gz')
EndsWithGz(file_path) ==
    /\ Len(file_path) >= 2
    /\ SubSeq(file_path, Len(file_path) - 1, Len(file_path)) = <<".", "gz">>

ExtSet(S) == {<<x>> : x \in S}

\* the keys of self.supported_extensions
supported_extensions(rar_support) ==
    ExtSet({"txt", "csv", "json", "xml", "html", "py", "js", "md", "log",
            "ini", "cfg", "zip", "tar", "gz"})
    \cup (IF rar_support THEN ExtSet({"rar"}) ELSE {})

\* the inner list taken to be the outer list's text extensions
InnerAllowListAsOuter ==
    ExtSet({"txt", "csv", "json", "xml", "html", "py", "js", "md", "log",
            "ini", "cfg"})

\* the list the archive readers test an entry's extension against
InnerAllowList ==
    ExtSet({"txt", "csv", "json", "xml", "html", "py", "js", "md", "log"})

----------------------------------------------------------------------------
(* The content decoder.  A disk entry f has                                *)
(*   rel      its path below the root                                      *)
(*   is_file  it is a regular file (else a directory)                      *)
(*   enc      the first of utf-8, cp1251, latin-1 that decodes its bytes,  *)
(*            or "oserror" when open() fails                               *)
(*   text     the text that codec gives                                    *)
(*   exc      matching this text raises an exception that is not re.error  *)
(*   fmt      the archive format of its bytes (none, zip, tar, targz, rar) *)
(*   members  the archive's entries, each with filename, is_dir, openable, *)
(*            text and exc                                                 *)

NoEntry == [rel |-> <<>>, is_file |-> FALSE, enc |-> "oserror", text |-> <<>>,
            exc |-> FALSE, fmt |-> "missing", members |-> <<>>]

\* os.path.exists(file_path) and what is stored there
Stat(entries, file_path) ==
    LET at == {k \in 1..Len(entries) : FullPath(entries[k].rel) = file_path}
    IN  IF at = {} THEN NoEntry ELSE entries[CHOOSE k \in at : TRUE]

\* mutant: the existence check is left to the decoders
ExistsUnchecked(entries, file_path) == TRUE

Exists(entries, file_path) ==
    file_path = RootPath \/ Stat(entries, file_path) # NoEntry

StrContent(s, exc) == [is_dict |-> FALSE, text |-> s, exc |-> exc, items |-> <<>>]
DictContent(items) == [is_dict |-> TRUE, text |-> <<>>, exc |-> FALSE, items |-> items]

_read_text_file(f) ==
    IF f.enc = "oserror" THEN StrContent(<<>>, FALSE)
    ELSE IF f.enc = "utf-8" THEN StrContent(f.text, f.exc)
    ELSE IF f.enc = "cp1251" THEN StrContent(f.text, f.exc)
    ELSE IF f.enc = "latin-1" THEN StrContent(f.text, f.exc)
    ELSE StrContent(<<>>, FALSE)

\* content[filename] = text
DictSet(content, filename, m) ==
    LET item == [key |-> filename, text |-> m.text, exc |-> m.exc]
        at == {k \in 1..Len(content) : content[k].key = filename}
    IN  IF at = {} THEN Append(content, item)
        ELSE [k \in 1..Len(content) |-> IF k \in at THEN item ELSE content[k]]

\* the loop over infolist() / getmembers(), from entry k on
RECURSIVE ReadMembers(_, _, _)
ReadMembers(members, k, content) ==
    IF k > Len(members) THEN content
    ELSE LET m == members[k]
         IN  IF ~m.is_dir /\ SplitextExt(m.filename) \in InnerAllowList
                THEN IF m.openable
                     THEN ReadMembers(members, k + 1, DictSet(content, m.filename, m))
                     ELSE ReadMembers(members, k + 1, content)
                ELSE ReadMembers(members, k + 1, content)

_read_zip_file(f) ==
    IF f.fmt = "zip" THEN DictContent(ReadMembers(f.members, 1, <<>>))
    ELSE DictContent(<<>>)

_read_rar_file(f, rar_support) ==
    IF ~rar_support THEN DictContent(<<>>)
    ELSE IF f.fmt = "rar" THEN DictContent(ReadMembers(f.members, 1, <<>>))
    ELSE DictContent(<<>>)

\* mutant: the first entry that cannot be opened ends the loop
_read_tar_fileStopsAtBadMember(f, file_path) ==
    LET mode == IF EndsWithGz(file_path) THEN "r:gz" ELSE "r"
        opens == IF mode = "r:gz" THEN f.fmt = "targz" ELSE f.fmt \in {"tar", "targz"}
        bad == {k \in 1..Len(f.members) :
                   /\ ~f.members[k].is_dir
                   /\ SplitextExt(f.members[k].filename) \in InnerAllowList
                   /\ ~f.members[k].openable}
        upto == IF bad = {} THEN Len(f.members)
                ELSE (CHOOSE k \in bad : \A j \in bad : k <= j) - 1
    IN  IF opens THEN DictContent(ReadMembers(SubSeq(f.members, 1, upto), 1, <<>>))
        ELSE DictContent(<<>>)

_read_tar_file(f, file_path) ==
    LET mode == IF EndsWithGz(file_path) THEN "r:gz" ELSE "r"
        opens == IF mode = "r:gz" THEN f.fmt = "targz" ELSE f.fmt \in {"tar", "targz"}
    IN  IF opens THEN DictContent(ReadMembers(f.members, 1, <<>>))
        ELSE DictContent(<<>>)

read_file(entries, file_path, rar_support) ==
    LET f == Stat(entries, file_path)
        ext == ReadFileExt(file_path)
    IN  IF ~Exists(entries, file_path) THEN StrContent(<<>>, FALSE)
        ELSE IF ext \in ExtSet({"zip", "rar", "tar", "gz"})
        THEN IF ext = <<"zip">> THEN _read_zip_file(f)
             ELSE IF ext = <<"rar">> /\ rar_support THEN _read_rar_file(f, rar_support)
             ELSE IF ext \in ExtSet({"tar", "gz"}) THEN _read_tar_file(f, file_path)
             ELSE DictContent(<<>>)
        ELSE IF ext \in supported_extensions(rar_support) THEN _read_text_file(f)
        ELSE _read_text_file(f)

----------------------------------------------------------------------------
(* UniversalFileSearcher.search_in_file *)

None == "None"

NewResults(file_path) ==
    [file |-> file_path, matches |-> <<>>, archive_contents |-> <<>>,
     is_archive |-> FALSE, match_count |-> 0, error |-> None]

\* mutant: the entry is recorded but the total is not increased
AddEntryKeepsCount(results, filename, file_results) ==
    [results EXCEPT
        !.archive_contents = Append(@, [file_in_archive |-> filename,
                                        matches |-> file_results,
                                        match_count |-> Len(file_results)])]

\* the body of `if file_results:` in the archive branch
AddEntry(results, filename, file_results) ==
    [results EXCEPT
        !.archive_contents = Append(@, [file_in_archive |-> filename,
                                        matches |-> file_results,
                                        match_count |-> Len(file_results)]),
        !.match_count = @ + Len(file_results)]

\* the two assignments of the plain-file branch
SetMatches(results, file_results) ==
    [results EXCEPT !.matches = file_results, !.match_count = Len(file_results)]

\* mutant: the exception is not caught
OnExceptionReraises(results) ==
    [raised |-> TRUE, value |-> results]

\* except Exception as e: results['error'] = str(e), then return results
OnException(results) ==
    [raised |-> FALSE, value |-> [results EXCEPT !.error = "exception"]]

\* the loop over content.items(), from item k on
RECURSIVE SearchItems(_, _, _, _, _, _)
SearchItems(items, k, results, pattern, case_sensitive, regex) ==
    IF k > Len(items) THEN [raised |-> FALSE, value |-> results]
    ELSE IF items[k].text = <<>>
    THEN SearchItems(items, k + 1, results, pattern, case_sensitive, regex)
    ELSE LET out == search_in_text(items[k].text, pattern, case_sensitive, regex,
                                   items[k].exc)
         IN  IF out.raised THEN OnException(results)
             ELSE IF out.value # <<>>
             THEN SearchItems(items, k + 1, AddEntry(results, items[k].key, out.value),
                              pattern, case_sensitive, regex)
             ELSE SearchItems(items, k + 1, results, pattern, case_sensitive, regex)

search_in_file(entries, file_path, pattern, case_sensitive, regex, rar_support) ==
    LET results == NewResults(file_path)
        content == read_file(entries, file_path, rar_support)
    IN  IF content.is_dict
        THEN SearchItems(content.items, 1, [results EXCEPT !.is_archive = TRUE],
                         pattern, case_sensitive, regex)
        ELSE LET out == search_in_text(content.text, pattern, case_sensitive, regex,
                                       content.exc)
             IN  IF out.raised THEN OnException(results)
                 ELSE [raised |-> FALSE, value |-> SetMatches(results, out.value)]

----------------------------------------------------------------------------
(* UniversalFileSearcher.search_in_directory *)

\* fnmatch of a name against the patterns "*" and "*<suffix>"
GlobMatch(name, glob) ==
    /\ Len(name) >= Len(glob) - 1
    /\ SubSeq(name, Len(name) - Len(glob) + 2, Len(name)) = Tail(glob)

\* list(dir_path.rglob(file_pattern)) / list(dir_path.glob(file_pattern)):
\* nothing is enumerated below a path that is not a directory
Glob(entries, directory, glob, deep) ==
    IF directory # RootPath THEN <<>>
    ELSE LET found == SelectSeq(entries,
                 LAMBDA e : /\ deep \/ LastIndexOf(e.rel, "/") = 0
                            /\ GlobMatch(Basename(e.rel), glob))
         IN  [k \in 1..Len(found) |-> FullPath(found[k].rel)]

\* file_path.is_file()
IsFile(entries, file_path) == Stat(entries, file_path).is_file

\* ext in self.supported_extensions or ext == ''
IsCandidate(ext, rar_support) ==
    ext \in supported_extensions(rar_support) \/ ext = <<>>

\* mutant: results without matches are collected too
KeepAll(result) == result.match_count >= 0

\* result.get('match_count', 0) > 0
Keep(result) == result.match_count > 0

\* the for loop of search_in_directory as one evaluation, from file k on
RECURSIVE WalkFiles(_, _, _, _, _, _, _)
WalkFiles(entries, fs, k, pattern, case_sensitive, regex, rar_support) ==
    IF k > Len(fs) THEN [raised |-> FALSE, value |-> <<>>]
    ELSE LET file_path == fs[k]
             out == search_in_file(entries, file_path, pattern, case_sensitive,
                                   regex, rar_support)
             rest == WalkFiles(entries, fs, k + 1, pattern, case_sensitive, regex,
                               rar_support)
         IN  IF ~IsFile(entries, file_path) THEN rest
             ELSE IF ~IsCandidate(WalkerExt(file_path), rar_support) THEN rest
             ELSE IF out.raised THEN [raised |-> TRUE, value |-> <<>>]
             ELSE IF Keep(out.value) /\ ~rest.raised
                  THEN [rest EXCEPT !.value = <<out.value>> \o @]
                  ELSE rest

\* search_in_directory as one evaluation, for the worker thread of the GUI
search_in_directory(entries, directory, pattern, glob, deep, cs, regex, rar) ==
    WalkFiles(entries, Glob(entries, directory, glob, deep), 1, pattern, cs,
              regex, rar)

----------------------------------------------------------------------------
(* The file system and the arguments the calls are made with *)

MaxFiles == 3

TextEntry(rel, enc, s, exc) ==
    [rel |-> rel, is_file |-> TRUE, enc |-> enc, text |-> s, exc |-> exc,
     fmt |-> "none", members |-> <<>>]

DirEntry(rel) ==
    [rel |-> rel, is_file |-> FALSE, enc |-> "oserror", text |-> <<>>,
     exc |-> FALSE, fmt |-> "none", members |-> <<>>]

ArchiveEntry(rel, fmt, members) ==
    [rel |-> rel, is_file |-> TRUE, enc |-> "latin-1", text |-> <<>>,
     exc |-> FALSE, fmt |-> fmt, members |-> members]

Member(filename, is_dir, openable, s, exc) ==
    [filename |-> filename, is_dir |-> is_dir, openable |-> openable,
     text |-> s, exc |-> exc]

Members ==
    << Member(<<"m1", ".", "txt">>, FALSE, TRUE, <<"a", NL, "a">>, FALSE),
       Member(<<"in", "/">>, TRUE, TRUE, <<>>, FALSE),
       Member(<<"in", "/", "m2", ".", "bin">>, FALSE, TRUE, <<"a">>, FALSE),
       Member(<<"m3", ".", "md">>, FALSE, FALSE, <<"a">>, FALSE),
       Member(<<"m4", ".", "log">>, FALSE, TRUE, <<"a">>, TRUE),
       Member(<<"m5", ".", "py">>, FALSE, TRUE, <<"a">>, FALSE) >>

Pool ==
    << TextEntry(<<"f1", ".", "log">>, "utf-8", <<"a">>, TRUE),
       TextEntry(<<"f2", ".", "txt">>, "utf-8", <<"a">>, FALSE),
       ArchiveEntry(<<"f3", ".", "zip">>, "zip", Members),
       DirEntry(<<"sub">>),
       TextEntry(<<"sub", "/", "f4", ".", "TXT">>, "cp1251", <<"A", NL, "a">>, FALSE),
       TextEntry(<<"f5", ".", "bin">>, "utf-8", <<"a">>, FALSE),
       TextEntry(<<"f6">>, "latin-1", <<"a", "a">>, FALSE),
       TextEntry(<<"f7", ".", "gz">>, "latin-1", <<"a">>, FALSE),
       ArchiveEntry(<<"f8", ".", "rar">>, "rar", SubSeq(Members, 1, 1)),
       TextEntry(<<"f9", ".", "txt">>, "oserror", <<>>, FALSE),
       TextEntry(<<"f10", ".", "txt">>, "utf-8", <<"b">>, FALSE) >>

\* the subsequences of s with at most n elements
RECURSIVE SubSeqsUpTo(_, _)
SubSeqsUpTo(s, n) ==
    IF n = 0 \/ s = <<>> THEN {<<>>}
    ELSE SubSeqsUpTo(Tail(s), n)
         \cup {<<Head(s)>> \o t : t \in SubSeqsUpTo(Tail(s), n - 1)}

\* a directory is enumerated before the entries below it
DiskOK(entries) ==
    \A k \in 1..Len(entries) :
        LastIndexOf(entries[k].rel, "/") # 0
        => \E j \in 1..(k - 1) :
              /\ ~entries[j].is_file
              /\ entries[j].rel = SubSeq(entries[k].rel, 1,
                                         LastIndexOf(entries[k].rel, "/") - 1)

\* the file systems of a call: some entries of the pool, at most n
DisksUpTo(n) == {d \in SubSeqsUpTo(Pool, n) : DiskOK(d)}

EnginePatterns == {<<"a">>, <<"(">>}
FilePatterns == {<<"*">>, <<"*", ".", "txt">>}

PathsOf(entries) == {FullPath(entries[k].rel) : k \in 1..Len(entries)}

TextChars == {"a", "A", "Idot", NL}
PatChars == {"a", "A", "(", ")", "."}

\* the strings over S with at most n characters
RECURSIVE StrUpTo(_, _)
StrUpTo(S, n) ==
    IF n = 0 THEN {<<>>}
    ELSE LET shorter == StrUpTo(S, n - 1)
         IN  shorter \cup {Append(s, c) : s \in shorter, c \in S}

Texts == StrUpTo(TextChars, MaxTextLen)
Patterns == StrUpTo(PatChars, MaxPatLen)

\* a line of n distinct characters
NumberedLine(n) == [i \in 1..n |-> ToString(i)]

\* the entries of the file system in the calls that are made with one path
MaxFilesOnePath == 1

\* the entries of an archive
MaxMembers == 3

\* archive entries: the ones above, two whose extension only the outer list
\* has, and one with an upper-case extension
MemberPool ==
    Members
    \o << Member(<<"m6", ".", "ini">>, FALSE, TRUE, <<"a">>, FALSE),
          Member(<<"m7", ".", "cfg">>, FALSE, TRUE, <<"a">>, FALSE),
          Member(<<"M8", ".", "TXT">>, FALSE, TRUE, <<"b", NL, "a">>, FALSE) >>

\* a file that os.path.exists() saw and that is gone when it is opened
GoneEntry(rel) ==
    [rel |-> rel, is_file |-> TRUE, enc |-> "oserror", text |-> <<>>,
     exc |-> FALSE, fmt |-> "gone", members |-> <<>>]

ArchiveNames ==
    {<<"x", ".", "zip">>, <<"x", ".", "tar">>, <<"x", ".", "tar", ".", "gz">>,
     <<"x", ".", "rar">>}
ArchiveFmts == {"zip", "tar", "targz", "rar", "none"}
OtherNames == {<<"x", ".", "txt">>, <<"x">>}

\* the file systems that hold one archive, or one file that vanishes
ArchiveDisks ==
    {<<ArchiveEntry(rel, fmt, ms)>> :
        rel \in ArchiveNames, fmt \in ArchiveFmts,
        ms \in SubSeqsUpTo(MemberPool, MaxMembers)}
    \cup {<<GoneEntry(rel)>> : rel \in ArchiveNames \cup OtherNames}

\* paths at which nothing is stored
MissingPaths == {FullPath(rel) : rel \in ArchiveNames \cup OtherNames}

----------------------------------------------------------------------------
(* Initial states: one call of an entry point with arguments drawn from    *)
(* the sets above.  A behaviour is that call; the engine keeps no state    *)
(* between calls.                                                          *)

arg_vars == <<arg_text, arg_pattern, arg_case_sensitive, arg_regex, arg_path,
              arg_file_pattern, arg_recursive, arg_line, arg_start, arg_end>>
env_vars == <<RAR_SUPPORT, disk, search_type, api>>
walk_vars == <<files, processed, idx, all_results>>
gui_vars == <<messagebox, current_results, after_queue, tree_rows>>

session_vars == <<threads, cleared, details>>

vars == <<pc, ret, arg_vars, env_vars, walk_vars, gui_vars, session_vars>>

NoWalk == files = <<>> /\ processed = 0 /\ idx = 0 /\ all_results = <<>>

NoGui ==
    /\ search_type = "dir" /\ messagebox = None
    /\ current_results = <<>> /\ after_queue = <<>> /\ tree_rows = <<>>

NoContextArgs == arg_line = <<>> /\ arg_start = 0 /\ arg_end = 0

NoFileArgs ==
    /\ arg_path = <<>> /\ arg_file_pattern = <<"*">> /\ arg_recursive = TRUE
    /\ disk = <<>> /\ RAR_SUPPORT = FALSE

NoSession == threads = <<>> /\ cleared = 0 /\ details = None

Start == pc = "call" /\ ret = None /\ NoWalk /\ NoSession

InitText ==
    /\ api = "search_in_text"
    /\ arg_text \in Texts
    /\ arg_pattern \in Patterns
    /\ arg_case_sensitive \in BOOLEAN
    /\ arg_regex \in BOOLEAN
    /\ NoContextArgs /\ NoFileArgs /\ NoGui /\ Start

InitContext ==
    /\ api = "_get_context"
    /\ \E n \in 0..MaxLineLen : arg_line = NumberedLine(n)
    /\ arg_start \in 0..Len(arg_line)
    /\ arg_end \in arg_start..Min(Len(arg_line), arg_start + MaxMatchLen)
    /\ arg_text = <<>> /\ arg_pattern = <<>>
    /\ arg_case_sensitive = FALSE /\ arg_regex = FALSE
    /\ NoFileArgs /\ NoGui /\ Start

InitPatternSpec ==
    /\ arg_pattern \in EnginePatterns
    /\ arg_case_sensitive \in BOOLEAN
    /\ arg_regex \in BOOLEAN
    /\ RAR_SUPPORT \in BOOLEAN
    /\ arg_text = <<>>
    /\ NoContextArgs

InitFile ==
    /\ api = "search_in_file"
    /\ disk \in DisksUpTo(MaxFilesOnePath) \cup ArchiveDisks
    /\ arg_path \in PathsOf(disk)
                    \cup (IF disk \in ArchiveDisks THEN {}
                          ELSE {MissingPath, RootPath} \cup MissingPaths)
    /\ arg_file_pattern = <<"*">> /\ arg_recursive = TRUE
    /\ InitPatternSpec /\ NoGui /\ Start

InitReadFile ==
    /\ api = "read_file"
    /\ disk \in DisksUpTo(MaxFilesOnePath) \cup ArchiveDisks
    /\ arg_path \in PathsOf(disk)
                    \cup (IF disk \in ArchiveDisks THEN {}
                          ELSE {MissingPath, RootPath} \cup MissingPaths)
    /\ arg_file_pattern = <<"*">> /\ arg_recursive = TRUE
    /\ RAR_SUPPORT \in BOOLEAN
    /\ arg_text = <<>> /\ arg_pattern = <<>>
    /\ arg_case_sensitive = FALSE /\ arg_regex = FALSE
    /\ NoContextArgs /\ NoGui /\ Start

InitDirectory ==
    /\ api = "search_in_directory"
    /\ disk \in DisksUpTo(MaxFiles)
    /\ arg_path \in {RootPath}
                    \cup (IF Len(disk) <= MaxFilesOnePath
                          THEN {MissingPath} \cup PathsOf(disk) ELSE {})
    /\ arg_file_pattern \in FilePatterns
    /\ arg_recursive \in BOOLEAN
    /\ InitPatternSpec /\ NoGui /\ Start

InitGui ==
    /\ api = "start_search"
    /\ disk \in DisksUpTo(MaxFilesOnePath)
    /\ search_type \in {"file", "dir", "pattern"}
    /\ arg_path \in PathsOf(disk) \cup {MissingPath, RootPath, <<>>}
    /\ arg_file_pattern \in (IF search_type = "pattern"
                             THEN FilePatterns \cup {<<>>} ELSE {<<"*">>})
    /\ arg_recursive \in BOOLEAN
    /\ arg_pattern \in EnginePatterns \cup {<<>>}
    /\ arg_case_sensitive \in BOOLEAN
    /\ arg_regex \in BOOLEAN
    /\ RAR_SUPPORT \in BOOLEAN
    /\ arg_text = <<>>
    /\ NoContextArgs
    /\ messagebox = None
    /\ current_results = <<>> /\ after_queue = <<>> /\ tree_rows = <<>>
    /\ Start

Init ==
    InitText \/ InitContext \/ InitReadFile \/ InitFile \/ InitDirectory \/ InitGui

----------------------------------------------------------------------------
(* Actions *)

CallSearchInText ==
    /\ api = "search_in_text" /\ pc = "call"
    /\ ret' = search_in_text(arg_text, arg_pattern, arg_case_sensitive, arg_regex,
                             FALSE)
    /\ pc' = "returned"
    /\ UNCHANGED <<arg_vars, env_vars, session_vars, walk_vars, gui_vars>>

CallGetContext ==
    /\ api = "_get_context" /\ pc = "call"
    /\ ret' = _get_context(arg_line, arg_start, arg_end)
    /\ pc' = "returned"
    /\ UNCHANGED <<arg_vars, env_vars, session_vars, walk_vars, gui_vars>>

CallReadFile ==
    /\ api = "read_file" /\ pc = "call"
    /\ ret' = read_file(disk, arg_path, RAR_SUPPORT)
    /\ pc' = "returned"
    /\ UNCHANGED <<arg_vars, env_vars, session_vars, walk_vars, gui_vars>>

CallSearchInFile ==
    /\ api = "search_in_file" /\ pc = "call"
    /\ LET out == search_in_file(disk, arg_path, arg_pattern, arg_case_sensitive,
                                 arg_regex, RAR_SUPPORT)
       IN  IF out.raised THEN pc' = "raised" /\ ret' = ret
           ELSE pc' = "returned" /\ ret' = out.value
    /\ UNCHANGED <<arg_vars, env_vars, session_vars, walk_vars, gui_vars>>

\* search_in_directory up to the for loop
BeginWalk(directory, glob, deep) ==
    /\ files' = Glob(disk, directory, glob, deep)
    /\ processed' = 0
    /\ idx' = 1
    /\ all_results' = <<>>
    /\ pc' = "loop"

CallSearchInDirectory ==
    /\ api = "search_in_directory" /\ pc = "call"
    /\ BeginWalk(arg_path, arg_file_pattern, arg_recursive)
    /\ UNCHANGED <<ret, arg_vars, env_vars, session_vars, gui_vars>>

\* an exception leaves search_in_directory: the caller of the API sees it,
\* perform_search catches it and schedules show_error
Propagate ==
    IF api = "start_search"
    THEN /\ after_queue' = Append(after_queue, [callback |-> "show_error",
                                                results |-> <<>>])
         /\ pc' = "scheduled"
         /\ UNCHANGED <<messagebox, current_results, tree_rows>>
    ELSE /\ pc' = "raised"
         /\ UNCHANGED gui_vars

\* one iteration of the for loop of search_in_directory
LoopStep ==
    /\ pc = "loop" /\ idx <= Len(files)
    /\ LET file_path == files[idx]
           ext == WalkerExt(file_path)
           out == search_in_file(disk, file_path, arg_pattern, arg_case_sensitive,
                                 arg_regex, RAR_SUPPORT)
       IN  IF ~IsFile(disk, file_path)
           THEN UNCHANGED <<pc, processed, all_results, gui_vars>>
           ELSE /\ processed' = processed + 1
                /\ IF ~IsCandidate(ext, RAR_SUPPORT)
                   THEN UNCHANGED <<pc, all_results, gui_vars>>
                   ELSE IF out.raised
                   THEN Propagate /\ UNCHANGED all_results
                   ELSE /\ all_results' = IF Keep(out.value)
                                          THEN Append(all_results, out.value)
                                          ELSE all_results
                        /\ UNCHANGED <<pc, gui_vars>>
    /\ idx' = idx + 1
    /\ UNCHANGED <<ret, files, arg_vars, env_vars, session_vars>>

\* self.current_results = results; self.root.after(0, self.display_results, results)
Publish(results) ==
    /\ current_results' = results
    /\ after_queue' = Append(after_queue, [callback |-> "display_results",
                                           results |-> results])
    /\ pc' = "scheduled"
    /\ UNCHANGED <<messagebox, tree_rows>>

\* the loop is over: search_in_directory returns all_results, to the caller
\* of the API or to perform_search, which goes on to publish them
LoopExit ==
    /\ pc = "loop" /\ idx > Len(files)
    /\ IF api = "start_search"
       THEN Publish(all_results) /\ ret' = ret
       ELSE pc' = "returned" /\ ret' = all_results /\ UNCHANGED gui_vars
    /\ UNCHANGED <<arg_vars, env_vars, session_vars, walk_vars>>

\* FileSearchGUI.start_search
start_search ==
    /\ api = "start_search" /\ pc = "call"
    /\ IF arg_pattern = <<>> \/ arg_path = <<>>
       THEN /\ messagebox' = "showwarning"
            /\ pc' = "returned"
            /\ UNCHANGED <<current_results, tree_rows>>
       ELSE IF ~Exists(disk, arg_path)
       THEN /\ messagebox' = "showerror"
            /\ pc' = "returned"
            /\ UNCHANGED <<current_results, tree_rows>>
       ELSE /\ tree_rows' = <<>>
            /\ current_results' = <<>>
            /\ pc' = "perform_search"
            /\ UNCHANGED messagebox
    /\ UNCHANGED <<ret, after_queue, arg_vars, env_vars, session_vars, walk_vars>>

\* FileSearchGUI.perform_search, search type 'file'
PerformSearchFile ==
    /\ api = "start_search" /\ pc = "perform_search" /\ search_type = "file"
    /\ LET out == search_in_file(disk, arg_path, arg_pattern, arg_case_sensitive,
                                 arg_regex, RAR_SUPPORT)
       IN  IF out.raised THEN Propagate ELSE Publish(<<out.value>>)
    /\ UNCHANGED <<ret, arg_vars, env_vars, session_vars, walk_vars>>

\* FileSearchGUI.perform_search, search types 'dir' and 'pattern', up to the
\* for loop of search_in_directory
PerformSearchDirectory ==
    /\ api = "start_search" /\ pc = "perform_search" /\ search_type # "file"
    /\ BeginWalk(arg_path,
                 IF search_type = "pattern" /\ arg_file_pattern # <<>>
                 THEN arg_file_pattern ELSE <<"*">>,
                 arg_recursive)
    /\ UNCHANGED <<ret, arg_vars, env_vars, session_vars, gui_vars>>

\* the rows display_results inserts into the results tree
Rows(results) ==
    LET shown == SelectSeq(results, LAMBDA r : r.match_count > 0)
    IN  [k \in 1..Len(shown) |->
            [file |-> shown[k].file, match_count |-> shown[k].match_count,
             tag |-> IF shown[k].is_archive THEN "archive" ELSE "file"]]

\* the Tk main loop runs the callback scheduled with root.after:
\* FileSearchGUI.display_results or FileSearchGUI.show_error
MainLoop ==
    /\ pc = "scheduled" /\ after_queue # <<>>
    /\ IF Head(after_queue).callback = "display_results"
       THEN /\ tree_rows' = tree_rows \o Rows(Head(after_queue).results)
            /\ pc' = "displayed"
            /\ UNCHANGED messagebox
       ELSE /\ messagebox' = "showerror"
            /\ pc' = "error_shown"
            /\ UNCHANGED tree_rows
    /\ after_queue' = Tail(after_queue)
    /\ UNCHANGED <<ret, current_results, arg_vars, env_vars, session_vars, walk_vars>>

Next ==
    \/ CallSearchInText
    \/ CallGetContext
    \/ CallReadFile
    \/ CallSearchInFile
    \/ CallSearchInDirectory
    \/ LoopStep
    \/ LoopExit
    \/ start_search
    \/ PerformSearchFile
    \/ PerformSearchDirectory
    \/ MainLoop

Spec == Init /\ [][Next]_vars

----------------------------------------------------------------------------
(* A session of the GUI.  The handlers start_search, clear_results,        *)
(* on_tree_select and the callbacks scheduled with root.after run on the   *)
(* Tk main thread, one at a time; every search runs perform_search on a    *)
(* thread of its own, and start_search does not wait for the thread of the *)
(* search before.  The progress bar and the status line are left out.      *)

\* the searches started in a session
MaxSearches == 2
\* the clicks on the clear button in a session
MaxClears == 1

InitSession ==
    /\ api = "gui_session"
    /\ disk \in DisksUpTo(MaxFilesOnePath)
    /\ search_type \in {"file", "dir"}
    /\ arg_path = <<>>
    /\ arg_file_pattern = <<"*">> /\ arg_recursive = TRUE
    /\ arg_pattern = <<"a">>
    /\ arg_case_sensitive = FALSE /\ arg_regex = FALSE
    /\ RAR_SUPPORT \in BOOLEAN
    /\ arg_text = <<>>
    /\ NoContextArgs
    /\ messagebox = None
    /\ current_results = <<>> /\ after_queue = <<>> /\ tree_rows = <<>>
    /\ Start

\* the user types a path and presses the search button: start_search
StartSearchClick(path) ==
    /\ api = "gui_session" /\ Len(threads) < MaxSearches
    /\ arg_path' = path
    /\ IF arg_pattern = <<>> \/ path = <<>>
       THEN /\ messagebox' = "showwarning"
            /\ UNCHANGED <<current_results, tree_rows, threads, details>>
       ELSE IF ~Exists(disk, path)
       THEN /\ messagebox' = "showerror"
            /\ UNCHANGED <<current_results, tree_rows, threads, details>>
       ELSE /\ tree_rows' = <<>>
            /\ details' = None
            /\ current_results' = <<>>
            /\ threads' = Append(threads, [pattern |-> arg_pattern, path |-> path,
                                           at |-> "started", results |-> <<>>])
            /\ UNCHANGED messagebox
    /\ UNCHANGED <<pc, ret, after_queue, cleared, arg_text, arg_pattern,
                   arg_case_sensitive, arg_regex, arg_file_pattern, arg_recursive,
                   arg_line, arg_start, arg_end, env_vars, walk_vars>>

\* the try body of perform_search up to the assignment of results
SearchOutcome(pattern, path) ==
    IF search_type = "file"
    THEN LET out == search_in_file(disk, path, pattern, arg_case_sensitive,
                                   arg_regex, RAR_SUPPORT)
         IN  [raised |-> out.raised, value |-> <<out.value>>]
    ELSE search_in_directory(disk, path, pattern,
                             IF search_type = "pattern" /\ arg_file_pattern # <<>>
                             THEN arg_file_pattern ELSE <<"*">>,
                             arg_recursive, arg_case_sensitive, arg_regex,
                             RAR_SUPPORT)

\* thread t runs perform_search as far as self.current_results = results, or
\* into the except clause, which schedules show_error
perform_search(t) ==
    /\ api = "gui_session" /\ threads[t].at = "started"
    /\ LET out == SearchOutcome(threads[t].pattern, threads[t].path)
       IN  IF out.raised
           THEN /\ after_queue' = Append(after_queue, [callback |-> "show_error",
                                                       results |-> <<>>])
                /\ threads' = [threads EXCEPT ![t].at = "finished"]
                /\ UNCHANGED current_results
           ELSE /\ current_results' = out.value
                /\ threads' = [threads EXCEPT ![t].at = "assigned",
                                              ![t].results = out.value]
                /\ UNCHANGED after_queue
    /\ UNCHANGED <<pc, ret, messagebox, tree_rows, cleared, details, arg_vars,
                   env_vars, walk_vars>>

\* thread t goes on: self.root.after(0, self.display_results, results)
PerformSearchAfter(t) ==
    /\ api = "gui_session" /\ threads[t].at = "assigned"
    /\ after_queue' = Append(after_queue, [callback |-> "display_results",
                                           results |-> threads[t].results])
    /\ threads' = [threads EXCEPT ![t].at = "finished"]
    /\ UNCHANGED <<pc, ret, messagebox, current_results, tree_rows, cleared,
                   details, arg_vars, env_vars, walk_vars>>

\* the main loop runs the oldest scheduled callback: display_results or
\* show_error
RunAfterCallback ==
    /\ api = "gui_session" /\ after_queue # <<>>
    /\ IF Head(after_queue).callback = "display_results"
       THEN /\ tree_rows' = tree_rows \o Rows(Head(after_queue).results)
            /\ UNCHANGED messagebox
       ELSE /\ messagebox' = "showerror"
            /\ UNCHANGED tree_rows
    /\ after_queue' = Tail(after_queue)
    /\ UNCHANGED <<pc, ret, current_results, session_vars, arg_vars, env_vars,
                   walk_vars>>

\* FileSearchGUI.clear_results
clear_results ==
    /\ api = "gui_session" /\ cleared < MaxClears
    /\ tree_rows' = <<>>
    /\ details' = None
    /\ current_results' = <<>>
    /\ cleared' = cleared + 1
    /\ UNCHANGED <<pc, ret, messagebox, after_queue, threads, arg_vars, env_vars,
                   walk_vars>>

\* FileSearchGUI.on_tree_select with the i-th row selected (item_idx = i - 1);
\* the details pane then shows the file of current_results[item_idx]
on_tree_select(i) ==
    /\ api = "gui_session" /\ i \in 1..Len(tree_rows)
    /\ IF i - 1 < Len(current_results)
       THEN details' = [row |-> tree_rows[i].file, file |-> current_results[i].file]
       ELSE UNCHANGED details
    /\ UNCHANGED <<pc, ret, gui_vars, threads, cleared, arg_vars, env_vars,
                   walk_vars>>

NextGui ==
    \/ \E path \in PathsOf(disk) \cup {RootPath, MissingPath, <<>>} :
          StartSearchClick(path)
    \/ \E t \in 1..Len(threads) : perform_search(t)
    \/ \E t \in 1..Len(threads) : PerformSearchAfter(t)
    \/ RunAfterCallback
    \/ clear_results
    \/ \E i \in 1..Len(tree_rows) : on_tree_select(i)

SpecGui == InitSession /\ [][NextGui]_vars

----------------------------------------------------------------------------
(* Properties *)

\* the search_in_file results the caller can see
ReturnedResults ==
    (IF api = "search_in_file" /\ pc = "returned" THEN {ret} ELSE {})
    \cup {all_results[k] : k \in 1..Len(all_results)}
    \cup {current_results[k] : k \in 1..Len(current_results)}

\* a directory search has run to its end, and what it gave
WalkFinished ==
    \/ api = "search_in_directory" /\ pc = "returned"
    \/ api = "start_search" /\ search_type # "file" /\ pc \in {"scheduled", "displayed"}

WalkResult == IF api = "search_in_directory" THEN ret ELSE current_results

\* the result of search_in_file for an enumerated path
ResultOf(p) ==
    search_in_file(disk, p, arg_pattern, arg_case_sensitive, arg_regex,
                   RAR_SUPPORT).value

InvalidRegex == arg_regex /\ ~Compiles(arg_pattern)

RECURSIVE SumMatches(_)
SumMatches(contents) ==
    IF contents = <<>> THEN 0
    ELSE Len(Head(contents).matches) + SumMatches(Tail(contents))

\* C1: every result of search_in_file, on the normal and on the error exit,
\* has match_count equal to the sum of its archive entries' matches and no
\* matches of its own when is_archive, and match_count equal to len(matches)
\* and no archive_contents otherwise; every recorded archive entry has
\* match_count = len(matches) > 0.
C1_CountInvariant ==
    \A r \in ReturnedResults :
        /\ r.is_archive =>
              r.match_count = SumMatches(r.archive_contents) /\ r.matches = <<>>
        /\ ~r.is_archive =>
              r.match_count = Len(r.matches) /\ r.archive_contents = <<>>
        /\ \A k \in 1..Len(r.archive_contents) :
              /\ r.archive_contents[k].match_count = Len(r.archive_contents[k].matches)
              /\ r.archive_contents[k].match_count > 0

\* the error exit of an archive whose earlier entries matched
C1_Witness ==
    /\ api = "search_in_file" /\ pc = "returned"
    /\ ret.is_archive /\ ret.error # None /\ ret.match_count > 1

\* C2: search_in_file never raises, and a result that carries the error
\* field has matches empty, archive_contents empty and match_count 0.
C2_ErrorLeavesDefaults ==
    /\ pc # "raised"
    /\ \A r \in ReturnedResults :
          r.error # None =>
              r.matches = <<>> /\ r.archive_contents = <<>> /\ r.match_count = 0

\* the enumerated entries search_in_directory is to return a result for
Selected(p) ==
    /\ Stat(disk, p).is_file
    /\ WalkerExt(p) \in supported_extensions(RAR_SUPPORT) \cup {<<>>}
    /\ ResultOf(p).match_count > 0

\* C3: search_in_directory returns exactly the results of the enumerated
\* entries that are regular files, have a supported or an empty extension and
\* a search_in_file result with match_count > 0, in enumeration order.
C3_ExactlyMatchingFiles ==
    WalkFinished =>
        LET sel == SelectSeq(files, Selected)
        IN  WalkResult = [k \in 1..Len(sel) |-> ResultOf(sel[k])]

\* three enumerated entries, two returned, one candidate without matches
C3_Witness ==
    /\ WalkFinished /\ Len(files) = 3 /\ Len(WalkResult) = 2
    /\ \E k \in 1..Len(files) :
          /\ Stat(disk, files[k]).is_file
          /\ WalkerExt(files[k]) = <<"txt">>
          /\ ResultOf(files[k]).match_count = 0

\* processing the file failed: it could not be decoded, it is a corrupt
\* archive, or search_in_file caught an exception
FailedFile(p) ==
    LET f == Stat(disk, p)
    IN  /\ f.is_file
        /\ \/ ResultOf(p).error # None
           \/ f.enc = "oserror"
           \/ ReadFileExt(p) \in ExtSet({"zip", "tar", "gz"}) /\ f.fmt = "none"

\* C4: no failure while one file is processed aborts the directory scan:
\* nothing is raised, and every file enumerated after a failed one that is a
\* candidate with matches has its result returned.
C4_ScanSurvivesFailure ==
    /\ pc \notin {"raised", "error_shown"}
    /\ \A k \in 1..Len(after_queue) : after_queue[k].callback # "show_error"
    /\ WalkFinished =>
          \A i \in 1..Len(files) :
              (Selected(files[i]) /\ \E j \in 1..(i - 1) : FailedFile(files[j]))
              => \E k \in 1..Len(WalkResult) : WalkResult[k] = ResultOf(files[i])

\* a file whose matching raised, then a file whose result is returned
C4_Witness ==
    /\ WalkFinished
    /\ \E i \in 1..Len(files) :
          /\ Selected(files[i])
          /\ \E j \in 1..(i - 1) :
                /\ Stat(disk, files[j]).is_file
                /\ ResultOf(files[j]).error # None
          /\ \E k \in 1..Len(WalkResult) : WalkResult[k] = ResultOf(files[i])

\* C5: a directory search whose root does not exist or is not a directory
\* never ends as an ordinary search with a result list.
C5_BadRootIsError ==
    WalkFinished => arg_path = RootPath

\* a valid pattern that matches nothing in any text of the model
NoMatchPattern == <<"z">>

\* C6: with regex=True and a pattern that does not compile, what the call
\* returns differs from what the same call returns for a valid pattern that
\* matches nothing (for search_in_text: on a text that is not empty, so that
\* the pattern is compiled; the diagnostic printed to stdout is not part of
\* what is returned).
C6_InvalidRegexDistinguishable ==
    (pc = "returned" /\ InvalidRegex) =>
        CASE api = "search_in_text" /\ arg_text # <<>> ->
                <<ret.raised, ret.value>> #
                <<FALSE, search_in_text(arg_text, NoMatchPattern, arg_case_sensitive,
                                        TRUE, FALSE).value>>
          [] api = "search_in_file" ->
                ret # search_in_file(disk, arg_path, NoMatchPattern,
                                     arg_case_sensitive, TRUE, RAR_SUPPORT).value
          [] api = "search_in_directory" -> ret # <<>>
          [] OTHER -> TRUE

\* C7: with regex=True and a pattern that does not compile, search_in_text
\* returns the empty list and does not raise, and a directory scan raises
\* nothing and ends with no results.
C7_InvalidRegexEmpty ==
    InvalidRegex =>
        /\ pc \notin {"raised", "error_shown"}
        /\ (api = "search_in_text" /\ pc = "returned")
              => ~ret.raised /\ ret.value = <<>>
        /\ WalkFinished => WalkResult = <<>>

\* a scan over two files with text, ended, with the invalid pattern
C7_Witness ==
    /\ InvalidRegex /\ api = "search_in_directory" /\ pc = "returned"
    /\ processed >= 2 /\ ret = <<>>
    /\ \E k \in 1..Len(files) :
          Stat(disk, files[k]).text # <<>> /\ WalkerExt(files[k]) = <<"txt">>

\* the string the literal branch searches in
Folded(s) == IF arg_case_sensitive THEN s ELSE Lower(s)

RecordsOfLine(n) == {k \in 1..Len(ret.value) : ret.value[k].line = n}

\* C8: in literal mode with a non-empty pattern, the positions recorded for a
\* line are exactly the indices at which the (case-folded) pattern occurs in
\* the (case-folded) line, overlapping occurrences included, each once.
C8_AllOccurrences ==
    (api = "search_in_text" /\ pc = "returned" /\ ~arg_regex /\ arg_pattern # <<>>) =>
        LET lines == Split(arg_text, NL)
        IN  /\ \A k \in 1..Len(ret.value) : ret.value[k].line \in 1..Len(lines)
            /\ \A n \in 1..Len(lines) :
                  LET hits == {i \in 0..Len(Folded(lines[n])) :
                                  Occurs(Folded(lines[n]), Folded(arg_pattern), i)}
                  IN  /\ {ret.value[k].position : k \in RecordsOfLine(n)} = hits
                      /\ Cardinality(RecordsOfLine(n)) = Cardinality(hits)

\* 'aa' over 'aaa', case-insensitive: positions 0 and 1
C8_Witness ==
    /\ api = "search_in_text" /\ pc = "returned" /\ ~arg_regex /\ ~arg_case_sensitive
    /\ arg_text = <<"a", "a", "a">> /\ arg_pattern = <<"a", "a">>
    /\ Len(ret.value) = 2
    /\ ret.value[1].position = 0 /\ ret.value[2].position = 1

\* C9: in literal mode with case_sensitive=false, the matched text of every
\* record is line[position : position+len(pattern)] of the source line and
\* equals the pattern after case folding.
C9_OriginalCaseMatch ==
    (api = "search_in_text" /\ pc = "returned" /\ ~arg_regex /\ ~arg_case_sensitive) =>
        LET lines == Split(arg_text, NL)
        IN  \A k \in 1..Len(ret.value) :
                LET r == ret.value[k]
                IN  /\ r.match = Slice(lines[r.line], r.position,
                                       r.position + Len(arg_pattern))
                    /\ Lower(r.match) = Lower(arg_pattern)

\* C10: _get_context returns line[max(0,start-50) : min(len(line),end+50)],
\* with "..." in front exactly when start > 50 and "..." behind exactly when
\* end+50 < len(line); the context contains the matched text and has at most
\* 100 + (end-start) + 6 characters.
C10_ContextWindow ==
    (api = "_get_context" /\ pc = "returned") =>
        LET n == Len(arg_line)
            lo == IF arg_start - 50 > 0 THEN arg_start - 50 ELSE 0
            hi == IF arg_end + 50 < n THEN arg_end + 50 ELSE n
            window == [k \in 1..(hi - lo) |-> arg_line[lo + k]]
        IN  /\ ret = (IF arg_start > 50 THEN <<".", ".", ".">> ELSE <<>>)
                     \o window
                     \o (IF arg_end + 50 < n THEN <<".", ".", ".">> ELSE <<>>)
            /\ \E k \in 0..Len(ret) :
                  /\ k + (arg_end - arg_start) <= Len(ret)
                  /\ \A m \in 1..(arg_end - arg_start) :
                        ret[k + m] = arg_line[arg_start + m]
            /\ Len(ret) <= 100 + (arg_end - arg_start) + 6

\* a match with more than 50 characters on either side: both ellipses
C10_Witness ==
    /\ api = "_get_context" /\ pc = "returned"
    /\ arg_start > 50 /\ arg_end + 50 < Len(arg_line) /\ arg_end > arg_start
    /\ Len(ret) = 100 + (arg_end - arg_start) + 6

----------------------------------------------------------------------------
\* the keys of a returned mapping
Keys(content) == {content.items[k].key : k \in 1..Len(content.items)}

\* read_file was called on a file that opens as a zip archive
ZipDecoded ==
    /\ api = "read_file" /\ pc = "returned"
    /\ ReadFileExt(arg_path) = <<"zip">>
    /\ Stat(disk, arg_path).fmt = "zip"

\* C11: decoding a zip archive returns a mapping whose key set is exactly the
\* names of the entries that are not directories, whose lower-cased extension
\* is one of txt, csv, json, xml, html, py, js, md, log, and that could be
\* opened; no other entry is a key.
C11_ZipKeySet ==
    ZipDecoded =>
        LET ms == Stat(disk, arg_path).members
        IN  /\ ret.is_dict
            /\ Keys(ret) =
                 {ms[k].filename : k \in
                    {j \in 1..Len(ms) :
                        /\ ~ms[j].is_dir
                        /\ ms[j].openable
                        /\ SplitextExt(ms[j].filename) \in
                             ExtSet({"txt", "csv", "json", "xml", "html", "py",
                                     "js", "md", "log"})}}

\* a zip archive with an .ini entry, an entry that cannot be opened and an
\* upper-case .TXT entry decodes to the .TXT entry alone
C11_Witness ==
    /\ ZipDecoded
    /\ LET names == {Stat(disk, arg_path).members[k].filename :
                        k \in 1..Len(Stat(disk, arg_path).members)}
       IN  names = {<<"m3", ".", "md">>, <<"m6", ".", "ini">>, <<"M8", ".", "TXT">>}
    /\ Keys(ret) = {<<"M8", ".", "TXT">>}

----------------------------------------------------------------------------
\* the archive reader that read_file chooses for file_path can open f
Opens(f, file_path, rar_support) ==
    \/ ReadFileExt(file_path) = <<"zip">> /\ f.fmt = "zip"
    \/ ReadFileExt(file_path) = <<"rar">> /\ rar_support /\ f.fmt = "rar"
    \/ ReadFileExt(file_path) = <<"tar">> /\ f.fmt \in {"tar", "targz"}
    \/ ReadFileExt(file_path) = <<"gz">> /\ f.fmt = "targz"

\* an entry the archive readers try to open
Wanted(m) == ~m.is_dir /\ SplitextExt(m.filename) \in InnerAllowList

\* an entry that is read and in which the pattern is found
ValidAndMatches(m) ==
    /\ Wanted(m) /\ m.openable
    /\ search_in_text(m.text, arg_pattern, arg_case_sensitive, arg_regex,
                      FALSE).value # <<>>

\* search_in_file was called on an archive with an entry that cannot be
\* opened and a sibling that is valid and matches; matching no entry's text
\* runs out of memory or stack
IsolationCase ==
    /\ api = "search_in_file" /\ pc # "call"
    /\ LET f == Stat(disk, arg_path)
       IN  /\ Opens(f, arg_path, RAR_SUPPORT)
           /\ \E k \in 1..Len(f.members) :
                 Wanted(f.members[k]) /\ ~f.members[k].openable
           /\ \E k \in 1..Len(f.members) : ValidAndMatches(f.members[k])
           /\ \A k \in 1..Len(f.members) : ~f.members[k].exc

\* C12: when one entry of an archive cannot be opened and a sibling entry is
\* valid and matches, search_in_file raises nothing and returns
\* is_archive = true, match_count > 0, no error field, and in
\* archive_contents exactly the matching entries, in archive order: the
\* failing entry is left out and the entries after it are still processed.
C12_ArchiveIsolation ==
    IsolationCase =>
        LET matching == SelectSeq(Stat(disk, arg_path).members, ValidAndMatches)
        IN  /\ pc = "returned"
            /\ ret.is_archive
            /\ ret.match_count > 0
            /\ ret.error = None
            /\ [k \in 1..Len(ret.archive_contents) |->
                    ret.archive_contents[k].file_in_archive]
               = [k \in 1..Len(matching) |-> matching[k].filename]

\* a tar.gz whose first entry cannot be opened and whose second entry matches
C12_Witness ==
    /\ IsolationCase
    /\ arg_path = FullPath(<<"x", ".", "tar", ".", "gz">>)
    /\ Len(Stat(disk, arg_path).members) = 2
    /\ Stat(disk, arg_path).members[1].filename = <<"m3", ".", "md">>
    /\ Len(ret.archive_contents) = 1
    /\ ret.archive_contents[1].file_in_archive = <<"m5", ".", "py">>
    /\ ret.match_count = 1

----------------------------------------------------------------------------
\* C13: the list search_in_text returns is ordered by line number (1-based,
\* lines split on "\n" only) and, within one line, by strictly increasing
\* position; every record's match lies entirely inside the line its line
\* number names, in regex and in literal mode.
C13_OrderedInsideLine ==
    (api = "search_in_text" /\ pc = "returned") =>
        LET lines == Split(arg_text, NL)
            recs == ret.value
        IN  /\ \A k \in 1..Len(recs) :
                  /\ recs[k].line \in 1..Len(lines)
                  /\ recs[k].full_line = lines[recs[k].line]
                  /\ recs[k].position >= 0
                  /\ recs[k].position + Len(recs[k].match) <= Len(lines[recs[k].line])
                  /\ recs[k].match =
                       Slice(lines[recs[k].line], recs[k].position,
                             recs[k].position + Len(recs[k].match))
            /\ \A k \in 1..(Len(recs) - 1) :
                  \/ recs[k].line < recs[k + 1].line
                  \/ /\ recs[k].line = recs[k + 1].line
                     /\ recs[k].position < recs[k + 1].position

\* C15: the literal scan of a line ends, with the cursor strictly increasing
\* from hit to hit, so a line yields at most len(line) + 1 records, the empty
\* pattern included.
C15_AtMostLenPlusOne ==
    (api = "search_in_text" /\ pc = "returned" /\ ~arg_regex) =>
        LET lines == Split(arg_text, NL)
        IN  \A n \in 1..Len(lines) :
                /\ Cardinality(RecordsOfLine(n)) <= Len(lines[n]) + 1
                /\ \A j, k \in RecordsOfLine(n) :
                      j < k => ret.value[j].position < ret.value[k].position

----------------------------------------------------------------------------
\* search_in_file was called with a path at which nothing is stored
MissingSearched ==
    /\ api = "search_in_file" /\ pc # "call"
    /\ arg_path # RootPath
    /\ Stat(disk, arg_path) = NoEntry

\* search_in_file was called with a path whose file is there for
\* os.path.exists() and gone when the decoder opens it
GoneSearched ==
    /\ api = "search_in_file" /\ pc # "call"
    /\ Stat(disk, arg_path).fmt = "gone"

\* C14 as stated: for a path that does not exist search_in_file returns a
\* zero-match result without an error field, and the same result, is_archive
\* included, when the missing file is discovered during decode, for every
\* extension.
C14_MissingIdentical ==
    (MissingSearched \/ GoneSearched) =>
        /\ pc = "returned"
        /\ ret = NewResults(arg_path)

\* C14 amended: both results are zero-match results without an error field;
\* is_archive is false for a path that does not exist, and for a file found
\* missing during decode it is true exactly when the extension is zip, rar,
\* tar or gz.
C14_MissingZeroMatch ==
    (MissingSearched \/ GoneSearched) =>
        /\ pc = "returned"
        /\ ret = [NewResults(arg_path) EXCEPT
                     !.is_archive =
                         /\ GoneSearched
                         /\ ReadFileExt(arg_path) \in
                              ExtSet({"zip", "rar", "tar", "gz"})]

\* a .zip that vanished after the existence check is reported as an archive
C14_Witness ==
    /\ GoneSearched /\ pc = "returned"
    /\ ReadFileExt(arg_path) = <<"zip">>
    /\ ret.is_archive /\ ret.match_count = 0 /\ ret.error = None

----------------------------------------------------------------------------
\* C16: in a session of the GUI, under any interleaving of start_search,
\* clear_results, the worker threads and the scheduled display_results
\* callbacks, the i-th row of the results tree shows the file of
\* current_results[i], and on_tree_select shows the details of the selected
\* row's own file.
C16_RowsMatchResults ==
    api = "gui_session" =>
        /\ \A i \in 1..Len(tree_rows) :
              /\ i <= Len(current_results)
              /\ tree_rows[i].file = current_results[i].file
        /\ details # None => details.row = details.file

====
